---------------------------- MODULE Spec2Model ----------------------------
(***************************************************************************)
(* KazSmartChain (src/app.py): the session state of the dashboard and the  *)
(* operations that change it -- genesis, mine_block, deploy_smart_contract,*)
(* upload_file_to_blockchain, bridge_asset, the explorer's "Mine New       *)
(* Block" button and the sidebar's network selection.                      *)
(*                                                                         *)
(* Python strings that the code slices or compares character by character  *)
(* (hex digests, addresses, the miner label) are sequences of one-character*)
(* strings; other strings (network ids, transaction types, names) are TLA+ *)
(* strings.  SHA-256 is replaced by a deterministic mixing function on a   *)
(* small digest space (calculate_hash below); uuid.uuid4() is a fresh      *)
(* counter and datetime.now() a logical clock that advances at every read. *)
(***************************************************************************)
EXTENDS Integers, Sequences, FiniteSets, Bags, TLC

VARIABLES
    blocks,            \* st.session_state.blocks: network id -> list of Block
    transactions,      \* st.session_state.transactions: list of Transaction
    smart_contracts,   \* st.session_state.smart_contracts
    files,             \* st.session_state.files
    bridge_transfers,  \* st.session_state.bridge_transfers
    current_chain,     \* st.session_state.current_chain
    wallet,            \* st.session_state.wallet
    mining,            \* st.session_state.mining (set once, never read)
    now,               \* the clock read by datetime.now()
    uuid,              \* number of uuid.uuid4() values drawn so far
    pc,                \* where the script run stands: "idle", "mining", "found"
    frame,             \* the locals of the mine_block call in flight
    runs               \* two independent mine_block runs (SpecMine only)

vars == <<blocks, transactions, smart_contracts, files, bridge_transfers,
          current_chain, wallet, mining, now, uuid, pc, frame, runs>>

session == <<blocks, transactions, smart_contracts, files, bridge_transfers,
             current_chain, wallet, mining>>

---------------------------------------------------------------------------
(* Bounds of the model *)

\* Longest transaction ledger explored (operations are refused beyond it).
MaxTx == 2

\* Period of the leading digest digits in the nonce: a nonce that meets the
\* difficulty is found within NonceCycle iterations (65536 on average for
\* SHA-256).
NonceCycle == 4

\* Digest digits after the four leading ones (60 for SHA-256).
TailLen == 1

---------------------------------------------------------------------------
(* Strings *)

\* self.networks: the type of each simulated network.
NetworkType == [besu |-> "EVM-Compatible", fabric |-> "Permissioned",
                corda |-> "Permissioned"]

\* The 'gas_price' of each network in init_blockchain_data.
GasPrice == [besu |-> 20, fabric |-> 0, corda |-> 0]

Networks == {"besu", "fabric", "corda"}

HexChars == <<"0", "1", "2", "3", "4", "5", "6", "7",
              "8", "9", "a", "b", "c", "d", "e", "f">>

Alphabet == HexChars \o <<"x", ".", "Q", "m", "B", "r", "i", "g", "s", "u",
                          "t", "o", "S", "y">>

\* ord(c) of a character, as the position of c in Alphabet.
CharTok == [c \in {Alphabet[i] : i \in 1..Len(Alphabet)} |->
              CHOOSE i \in 1..Len(Alphabet) : Alphabet[i] = c]

\* One token per word for the strings the code never slices.
Words == <<"besu", "fabric", "corda", "Transfer", "Contract Deployment",
           "File Upload", "Bridge Lock", "Success", "Processing", "Token",
           "SimpleStorage", "KZT", "KZT_100", "report.pdf", "Genesis Block ",
           "System", "scan.png">>

WordTok == [w \in {Words[i] : i \in 1..Len(Words)} |->
              CHOOSE i \in 1..Len(Words) : Words[i] = w]

CharToks(s) == [i \in 1..Len(s) |-> CharTok[s[i]]]

\* The characters of a network id, for '0xBridge' + from_chain[:20].
ChainChars(chain) ==
    CASE chain = "besu"   -> <<"b", "e", "s", "u">>
      [] chain = "fabric" -> <<"f", "a", "b", "r", "i", "c">>
      [] chain = "corda"  -> <<"c", "o", "r", "d", "a">>

\* Python's s[:n].
Take(s, n) == SubSeq(s, 1, IF n < Len(s) THEN n ELSE Len(s))

RECURSIVE Repeat(_, _)
\* Python's s * n.
Repeat(s, n) == IF n = 0 THEN <<>> ELSE s \o Repeat(s, n - 1)

RECURSIVE Pow(_, _)
Pow(b, e) == IF e = 0 THEN 1 ELSE b * Pow(b, e - 1)

RECURSIVE Hex(_, _)
\* n written with len hex digits, most significant first.
Hex(n, len) ==
    IF len = 0 THEN <<>>
    ELSE Hex(n \div 16, len - 1) \o <<HexChars[(n % 16) + 1]>>

---------------------------------------------------------------------------
(* calculate_hash *)

\* Size of the digest space.
HashMod == NonceCycle * Pow(16, TailLen)

\* The digest state after absorbing the tokens of data: every token counts
\* with a weight that depends on its distance from the end of data, the last
\* token with weight 1.
Mix(data) ==
    LET n == Len(data)
        weighted == [i \in 1..n |->
                       ((data[i] % HashMod) + 1) * (2 * (n - i) + 1)]
    IN  (7 + BagCardinality(weighted)) % HashMod

\* hashlib.sha256(data.encode()).hexdigest(): four leading digits and TailLen
\* further ones, a one-to-one rendering of the digest state.
calculate_hash(data) ==
    LET h == Mix(data)
    IN  Hex(((h % NonceCycle) * 4099) % 65536, 4) \o Hex(h \div NonceCycle, TailLen)

---------------------------------------------------------------------------
(* Records *)

\* The Block dataclass.
Block(index, timestamp, txs, previous_hash, hash, nonce, miner) ==
    [index |-> index, timestamp |-> timestamp, transactions |-> txs,
     previous_hash |-> previous_hash, hash |-> hash, nonce |-> nonce,
     miner |-> miner]

\* A transaction charged by the network's gas price.
TransactionChargedByPrice(id, type, from_address, to_address, data, timestamp, chain, gas_used, block_number) ==
    [id |-> id, type |-> type, from_address |-> from_address,
     to_address |-> to_address, data |-> data, timestamp |-> timestamp,
     blockchain |-> chain, status |-> "Success",
     gas_used |-> gas_used * GasPrice[chain], block_number |-> block_number]

\* The Transaction dataclass; every transaction is created with status
\* 'Success'.  asdict(tx) is the same record: a snapshot by value.
Transaction(id, type, from_address, to_address, data, timestamp, chain, gas_used, block_number) ==
    [id |-> id, type |-> type, from_address |-> from_address,
     to_address |-> to_address, data |-> data, timestamp |-> timestamp,
     blockchain |-> chain, status |-> "Success", gas_used |-> gas_used,
     block_number |-> block_number]

\* '0x' + hashlib.sha256(str(uuid.uuid4()).encode()).hexdigest()[:n]
UuidHex(u, n) == <<"0", "x">> \o Take(calculate_hash(<<u>>), n)

\* The id of a transaction, '0x' + sha256(uuid4)[:64]: an opaque identifier,
\* distinct for distinct uuids.
TxId(u) == u

\* generate_wallet
generate_wallet(u) ==
    [address |-> UuidHex(u, 40), balance |-> 1000000, transactions |-> 0]

\* The data the genesis hash is computed over: "Genesis Block " + chain.
GenesisData(chain) == <<WordTok["Genesis Block "], WordTok[chain]>>

\* generate_genesis_block with the genesis hash taken over the block's own
\* fields, as mine_block does, instead of over the genesis string.
GenesisBlockHashedLikeMined(chain, timestamp) ==
    <<Block(0, timestamp, <<>>, <<"0">>,
            calculate_hash(<<0, timestamp>> \o CharToks(<<"0">>) \o <<0>>),
            0, <<"S", "y", "s", "t", "e", "m">>)>>

\* generate_genesis_block: the one-block list a chain starts with.
generate_genesis_block(chain, timestamp) ==
    <<Block(0, timestamp, <<>>, <<"0">>, calculate_hash(GenesisData(chain)),
            0, <<"S", "y", "s", "t", "e", "m">>)>>

---------------------------------------------------------------------------
(* str(transactions): the tokens of a list of transaction snapshots *)

DataToks(type, data) ==
    CASE type = "Transfer" ->
           <<data.amount, WordTok[data.token]>>
      [] type = "Contract Deployment" ->
           <<WordTok[data.contract], data.gas_limit>>
      [] type = "File Upload" ->
           <<WordTok[data.file_name]>> \o CharToks(data.file_hash)
             \o CharToks(data.ipfs_hash) \o <<data.size>>
      [] type = "Bridge Lock" ->
           <<WordTok[data.asset], data.amount, WordTok[data.destination]>>

TxToks(tx) ==
    <<tx.id, WordTok[tx.type]>> \o CharToks(tx.from_address)
      \o CharToks(tx.to_address) \o DataToks(tx.type, tx.data)
      \o <<tx.timestamp, WordTok[tx.blockchain], WordTok[tx.status],
           tx.gas_used, tx.block_number>>

RECURSIVE TxsToks(_)
TxsToks(txs) ==
    IF txs = <<>> THEN <<>> ELSE TxToks(Head(txs)) \o TxsToks(Tail(txs))

\* f"{index}{timestamp}{transactions}{previous_block.hash}{nonce}"
BlockData(index, timestamp, txs, previous_hash, nonce) ==
    <<index, timestamp>> \o TxsToks(txs) \o CharToks(previous_hash) \o <<nonce>>

---------------------------------------------------------------------------
(* Inputs of the operations *)

ContractNames == {"Token"}
ContractCodes == {"SimpleStorage"}
\* The size of the preview the upload page reads.
PreviewSize == 1024

\* An uploaded file: its name and its bytes.  One file is shorter than the
\* page's preview, one is longer.
UploadedFiles ==
    {[name |-> "report.pdf", bytes |-> <<37, 80, 68, 70>>],
     [name |-> "scan.png",
      bytes |-> [i \in 1..(PreviewSize + 2) |-> (i * i) % 251]]}
AssetIds == {"KZT_100"}
BridgeAmounts == {100}
\* random.randint(100, 10000)
TransferAmounts == {100, 10000}

---------------------------------------------------------------------------
(* mine_block *)

NoFrame == <<>>

\* mine_block reading blocks[0] instead of blocks[-1] as the previous block.
MineEntryStaleTip(chain, txs, timestamp) ==
    [chain |-> chain,
     index |-> Len(blocks[chain]),
     timestamp |-> timestamp,
     transactions |-> txs,
     previous_hash |-> blocks[chain][1].hash,
     nonce |-> 0,
     hash_value |-> <<>>]

\* mine_block starting its search at nonce 1.
MineEntryNonceFromOne(chain, txs, timestamp) ==
    [chain |-> chain,
     index |-> Len(blocks[chain]),
     timestamp |-> timestamp,
     transactions |-> txs,
     previous_hash |-> blocks[chain][Len(blocks[chain])].hash,
     nonce |-> 1,
     hash_value |-> <<>>]

\* The locals of mine_block before its loop: the tip, the index, the
\* timestamp read from the clock and nonce 0.
MineEntry(chain, txs, timestamp) ==
    [chain |-> chain,
     index |-> Len(blocks[chain]),
     timestamp |-> timestamp,
     transactions |-> txs,
     previous_hash |-> blocks[chain][Len(blocks[chain])].hash,
     nonce |-> 0,
     hash_value |-> <<>>]

\* block_data without the previous block's hash.
HashInputWithoutTip(f) ==
    <<f.index, f.timestamp>> \o TxsToks(f.transactions) \o <<f.nonce>>

\* block_data with the network id mixed in.
HashInputWithChain(f) ==
    <<WordTok[f.chain], f.index, f.timestamp>> \o TxsToks(f.transactions)
      \o CharToks(f.previous_hash) \o <<f.nonce>>

\* block_data of one loop iteration.
HashInput(f) ==
    BlockData(f.index, f.timestamp, f.transactions, f.previous_hash, f.nonce)

\* hash_value[:4] == "0000"
DifficultyMet(hash_value) == Take(hash_value, 4) = <<"0", "0", "0", "0">>

\* The Block built with the nonce incremented once more after the break.
NewBlockNonceOffByOne(f) ==
    Block(f.index, f.timestamp, f.transactions, f.previous_hash,
          f.hash_value, f.nonce + 1,
          Take(wallet.address, 10) \o <<".", ".", ".">>)

\* The Block built once the loop has ended.
NewBlock(f) ==
    Block(f.index, f.timestamp, f.transactions, f.previous_hash,
          f.hash_value, f.nonce,
          Take(wallet.address, 10) \o <<".", ".", ".">>)

\* The digest computed by the loop iteration at f.nonce.
IterationHash(f) == calculate_hash(HashInput(f))

\* A miss that leaves the nonce as it is.
NextNonceStuck(f) == f

\* nonce += 1
NextNonce(f) == [f EXCEPT !.nonce = @ + 1]

\* break: hash_value keeps the digest that met the difficulty.
Break(f) == [f EXCEPT !.hash_value = IterationHash(f)]

\* One iteration of the loop that misses the difficulty.
MineLoop ==
    /\ pc = "mining"
    /\ ~DifficultyMet(IterationHash(frame))
    /\ frame' = NextNonce(frame)
    /\ UNCHANGED <<session, now, uuid, pc, runs>>

\* The iteration that meets the difficulty.
MineBreak ==
    /\ pc = "mining"
    /\ DifficultyMet(IterationHash(frame))
    /\ frame' = Break(frame)
    /\ pc' = "found"
    /\ UNCHANGED <<session, now, uuid, runs>>

\* The new block put in the place of the tip instead of after it.
AppendBlockReplacingTip ==
    /\ pc = "found"
    /\ blocks' = [blocks EXCEPT ![frame.chain] =
                    Append(SubSeq(@, 1, Len(@) - 1), NewBlock(frame))]
    /\ pc' = "idle"
    /\ frame' = NoFrame
    /\ UNCHANGED <<transactions, smart_contracts, files, bridge_transfers,
                   current_chain, wallet, mining, now, uuid, runs>>

\* The append of a mine call that is not the only one in flight: the block
\* is appended and the same candidate stays pending.
AppendBlockStillPending ==
    /\ pc = "found"
    /\ blocks' = [blocks EXCEPT ![frame.chain] = Append(@, NewBlock(frame))]
    /\ UNCHANGED <<transactions, smart_contracts, files, bridge_transfers,
                   current_chain, wallet, mining, now, uuid, pc, frame, runs>>

\* blocks.append(new_block); return.
AppendBlock ==
    /\ pc = "found"
    /\ blocks' = [blocks EXCEPT ![frame.chain] = Append(@, NewBlock(frame))]
    /\ pc' = "idle"
    /\ frame' = NoFrame
    /\ UNCHANGED <<transactions, smart_contracts, files, bridge_transfers,
                   current_chain, wallet, mining, now, uuid, runs>>

\* The script run is stopped inside mine_block (a stop or rerun request is
\* served at the session-state reads of mine_block, before the loop and
\* between the loop and the append; the state left behind is the same at
\* every nonce).  No handler undoes what the caller has already appended.
Cancel ==
    /\ pc \in {"mining", "found"}
    /\ pc' = "idle"
    /\ frame' = NoFrame
    /\ UNCHANGED <<session, now, uuid, runs>>

---------------------------------------------------------------------------
(* The operations that mine *)

\* The SmartContract dataclass as deploy_smart_contract fills it.
SmartContract(address, name, chain, bytecode, deployed_at) ==
    [address |-> address, name |-> name, blockchain |-> chain,
     abi |-> <<"constructor", "transfer">>, bytecode |-> bytecode,
     deployed_at |-> deployed_at, transactions |-> 0]

\* deploy_smart_contract addressing the deployment transaction to the
\* deployer instead of the contract.
DeploySmartContractToDeployer(name, code, chain) ==
    LET contract_address ==
            <<"0", "x">> \o Take(calculate_hash(<<WordTok[name], now>>), 40)
        bytecode ==
            <<"0", "x">> \o Repeat(calculate_hash(<<WordTok[code]>>), 10)
        contract ==
            SmartContract(contract_address, name, chain,
                          Take(bytecode, 100) \o <<".", ".", ".">>, now + 1)
        tx == Transaction(TxId(uuid), "Contract Deployment", wallet.address,
                          wallet.address,
                          [contract |-> name, gas_limit |-> 3000000],
                          now + 2, chain, 2100000, Len(blocks[chain]))
    IN  /\ pc = "idle"
        /\ Len(transactions) < MaxTx
        /\ smart_contracts' = Append(smart_contracts, contract)
        /\ transactions' = Append(transactions, tx)
        /\ frame' = MineEntry(chain, <<tx>>, now + 3)
        /\ pc' = "mining"
        /\ now' = now + 4
        /\ uuid' = uuid + 1
        /\ UNCHANGED <<blocks, files, bridge_transfers, current_chain, wallet,
                       mining, runs>>

\* deploy_smart_contract up to the first iteration of mine_block's loop.
DeploySmartContract(name, code, chain) ==
    LET contract_address ==
            <<"0", "x">> \o Take(calculate_hash(<<WordTok[name], now>>), 40)
        bytecode ==
            <<"0", "x">> \o Repeat(calculate_hash(<<WordTok[code]>>), 10)
        contract ==
            SmartContract(contract_address, name, chain,
                          Take(bytecode, 100) \o <<".", ".", ".">>, now + 1)
        tx == Transaction(TxId(uuid), "Contract Deployment", wallet.address,
                          contract_address,
                          [contract |-> name, gas_limit |-> 3000000],
                          now + 2, chain, 2100000, Len(blocks[chain]))
    IN  /\ pc = "idle"
        /\ Len(transactions) < MaxTx
        /\ smart_contracts' = Append(smart_contracts, contract)
        /\ transactions' = Append(transactions, tx)
        /\ frame' = MineEntry(chain, <<tx>>, now + 3)
        /\ pc' = "mining"
        /\ now' = now + 4
        /\ uuid' = uuid + 1
        /\ UNCHANGED <<blocks, files, bridge_transfers, current_chain, wallet,
                       mining, runs>>

\* The FileRecord dataclass.
FileRecord(file_id, name, size, hash, ipfs_hash, chain, tx_hash, timestamp, owner) ==
    [file_id |-> file_id, name |-> name, size |-> size, hash |-> hash,
     ipfs_hash |-> ipfs_hash, blockchain |-> chain, tx_hash |-> tx_hash,
     timestamp |-> timestamp, owner |-> owner]

\* generate_ipfs_hash
generate_ipfs_hash(u) == <<"Q", "m">> \o Take(calculate_hash(<<u>>), 44)

\* file.read(n) at position pos of the stream.
FileRead(bytes, pos, n) ==
    SubSeq(bytes, pos + 1, IF pos + n < Len(bytes) THEN pos + n ELSE Len(bytes))

\* file.read() at position pos of the stream.
FileReadAll(bytes, pos) == SubSeq(bytes, pos + 1, Len(bytes))

\* The preview the upload page reads from the start of the stream.
FilePreview(file) == FileRead(file.bytes, 0, PreviewSize)

\* file.read() without the page's seek(0): the stream is left behind the
\* preview.
UploadedBytesBehindPreview(file) ==
    FileReadAll(file.bytes, Len(FilePreview(file)))

\* upload_file_to_blockchain recording and mining its transaction on the
\* network selected in the sidebar instead of the one chosen on the page.
UploadFileOnSidebarNetwork(file, chain) ==
    LET file_bytes == FileReadAll(file.bytes, 0)
        file_hash == calculate_hash(file_bytes)
        ipfs_hash == generate_ipfs_hash(uuid)
        file_record ==
            FileRecord(uuid + 1, file.name, Len(file_bytes), file_hash,
                       ipfs_hash, chain, TxId(uuid + 2), now, wallet.address)
        tx == Transaction(file_record.tx_hash, "File Upload", wallet.address,
                          <<"0", "x">> \o Repeat(<<"0">>, 40),
                          [file_name |-> file.name, file_hash |-> file_hash,
                           ipfs_hash |-> ipfs_hash, size |-> Len(file_bytes)],
                          now + 1, current_chain, 50000,
                          Len(blocks[current_chain]))
    IN  /\ pc = "idle"
        /\ Len(transactions) < MaxTx
        /\ files' = Append(files, file_record)
        /\ transactions' = Append(transactions, tx)
        /\ frame' = MineEntry(current_chain, <<tx>>, now + 2)
        /\ pc' = "mining"
        /\ now' = now + 3
        /\ uuid' = uuid + 3
        /\ UNCHANGED <<blocks, smart_contracts, bridge_transfers,
                       current_chain, wallet, mining, runs>>

\* What upload_file_to_blockchain reads in the script run of the upload
\* button: the page has read the preview and has put the stream back at 0.
UploadedBytes(file) == FileReadAll(file.bytes, 0)

\* upload_file_to_blockchain up to the first iteration of mine_block's loop.
UploadFile(file, chain) ==
    LET file_bytes == UploadedBytes(file)
        file_hash == calculate_hash(file_bytes)
        ipfs_hash == generate_ipfs_hash(uuid)
        file_record ==
            FileRecord(uuid + 1, file.name, Len(file_bytes), file_hash,
                       ipfs_hash, chain, TxId(uuid + 2), now, wallet.address)
        tx == Transaction(file_record.tx_hash, "File Upload", wallet.address,
                          <<"0", "x">> \o Repeat(<<"0">>, 40),
                          [file_name |-> file.name, file_hash |-> file_hash,
                           ipfs_hash |-> ipfs_hash, size |-> Len(file_bytes)],
                          now + 1, chain, 50000, Len(blocks[chain]))
    IN  /\ pc = "idle"
        /\ Len(transactions) < MaxTx
        /\ files' = Append(files, file_record)
        /\ transactions' = Append(transactions, tx)
        /\ frame' = MineEntry(chain, <<tx>>, now + 2)
        /\ pc' = "mining"
        /\ now' = now + 3
        /\ uuid' = uuid + 3
        /\ UNCHANGED <<blocks, smart_contracts, bridge_transfers,
                       current_chain, wallet, mining, runs>>

\* bridge_tx created with more confirmations than required.
BridgeTransferOverConfirmed(id, asset_id, from_chain, to_chain, amount, timestamp) ==
    [id |-> id, asset |-> asset_id, from_chain |-> from_chain,
     to_chain |-> to_chain, amount |-> amount, status |-> "Processing",
     timestamp |-> timestamp, confirmations |-> 11,
     required_confirmations |-> 10]

\* bridge_tx created as 'Completed' with no confirmation.
BridgeTransferCompletedAtStart(id, asset_id, from_chain, to_chain, amount, timestamp) ==
    [id |-> id, asset |-> asset_id, from_chain |-> from_chain,
     to_chain |-> to_chain, amount |-> amount, status |-> "Completed",
     timestamp |-> timestamp, confirmations |-> 0,
     required_confirmations |-> 10]

\* The bridge_tx dictionary of bridge_asset.
BridgeTransfer(id, asset_id, from_chain, to_chain, amount, timestamp) ==
    [id |-> id, asset |-> asset_id, from_chain |-> from_chain,
     to_chain |-> to_chain, amount |-> amount, status |-> "Processing",
     timestamp |-> timestamp, confirmations |-> 0,
     required_confirmations |-> 10]

\* bridge_asset recording and mining the lock on the destination network.
BridgeAssetLockOnDestination(asset_id, from_chain, to_chain, amount) ==
    LET bridge_tx ==
            BridgeTransfer(uuid, asset_id, from_chain, to_chain, amount, now)
        lock_tx ==
            Transaction(TxId(uuid + 1), "Bridge Lock", wallet.address,
                        <<"0", "x", "B", "r", "i", "d", "g", "e">>
                          \o Take(ChainChars(from_chain), 20),
                        [asset |-> asset_id, amount |-> amount,
                         destination |-> to_chain],
                        now + 1, to_chain, 75000, Len(blocks[to_chain]))
    IN  /\ pc = "idle"
        /\ Len(transactions) < MaxTx
        /\ bridge_transfers' = Append(bridge_transfers, bridge_tx)
        /\ transactions' = Append(transactions, lock_tx)
        /\ frame' = MineEntry(to_chain, <<lock_tx>>, now + 2)
        /\ pc' = "mining"
        /\ now' = now + 3
        /\ uuid' = uuid + 2
        /\ UNCHANGED <<blocks, smart_contracts, files, current_chain, wallet,
                       mining, runs>>

\* bridge_asset up to the first iteration of mine_block's loop.
BridgeAsset(asset_id, from_chain, to_chain, amount) ==
    LET bridge_tx ==
            BridgeTransfer(uuid, asset_id, from_chain, to_chain, amount, now)
        lock_tx ==
            Transaction(TxId(uuid + 1), "Bridge Lock", wallet.address,
                        <<"0", "x", "B", "r", "i", "d", "g", "e">>
                          \o Take(ChainChars(from_chain), 20),
                        [asset |-> asset_id, amount |-> amount,
                         destination |-> to_chain],
                        now + 1, from_chain, 75000, Len(blocks[from_chain]))
    IN  /\ pc = "idle"
        /\ Len(transactions) < MaxTx
        /\ bridge_transfers' = Append(bridge_transfers, bridge_tx)
        /\ transactions' = Append(transactions, lock_tx)
        /\ frame' = MineEntry(from_chain, <<lock_tx>>, now + 2)
        /\ pc' = "mining"
        /\ now' = now + 3
        /\ uuid' = uuid + 2
        /\ UNCHANGED <<blocks, smart_contracts, files, current_chain, wallet,
                       mining, runs>>

\* "Mine New Block" numbering its transaction with the tip's index.
ExplorerMineNumberedAtTip(amount) ==
    LET sample_tx ==
            Transaction(TxId(uuid), "Transfer", wallet.address,
                        UuidHex(uuid + 1, 40),
                        [amount |-> amount, token |-> "KZT"],
                        now, current_chain, 21000,
                        Len(blocks[current_chain]) - 1)
    IN  /\ pc = "idle"
        /\ Len(transactions) < MaxTx
        /\ transactions' = Append(transactions, sample_tx)
        /\ frame' = MineEntry(current_chain, <<sample_tx>>, now + 1)
        /\ pc' = "mining"
        /\ now' = now + 2
        /\ uuid' = uuid + 2
        /\ UNCHANGED <<blocks, smart_contracts, files, bridge_transfers,
                       current_chain, wallet, mining, runs>>

\* The explorer's "Mine New Block" button, on the selected network, up to
\* the first iteration of mine_block's loop.
ExplorerMine(amount) ==
    LET sample_tx ==
            Transaction(TxId(uuid), "Transfer", wallet.address,
                        UuidHex(uuid + 1, 40),
                        [amount |-> amount, token |-> "KZT"],
                        now, current_chain, 21000,
                        Len(blocks[current_chain]))
    IN  /\ pc = "idle"
        /\ Len(transactions) < MaxTx
        /\ transactions' = Append(transactions, sample_tx)
        /\ frame' = MineEntry(current_chain, <<sample_tx>>, now + 1)
        /\ pc' = "mining"
        /\ now' = now + 2
        /\ uuid' = uuid + 2
        /\ UNCHANGED <<blocks, smart_contracts, files, bridge_transfers,
                       current_chain, wallet, mining, runs>>

\* The explorer's list with the newest transaction first.
ChainTxsNewestFirst(chain) ==
    LET kept == SelectSeq(transactions, LAMBDA tx : tx.blockchain = chain)
    IN  [k \in 1..Len(kept) |-> kept[Len(kept) + 1 - k]]

\* The explorer's chain_txs: the ledger's transactions of one network.
chain_txs(chain) ==
    SelectSeq(transactions, LAMBDA tx : tx.blockchain = chain)

\* A network button of the sidebar.
SelectChain(chain_id) ==
    /\ pc = "idle"
    /\ chain_id # current_chain
    /\ current_chain' = chain_id
    /\ UNCHANGED <<blocks, transactions, smart_contracts, files,
                   bridge_transfers, wallet, mining, now, uuid, pc, frame,
                   runs>>

\* random.randint(1, 3) of the bridge page.
Rolls == 1..3

\* The transfers the bridge page lists: bridge_transfers[-3:].
ActiveTransfers ==
    SubSeq(bridge_transfers,
           IF Len(bridge_transfers) > 3 THEN Len(bridge_transfers) - 2 ELSE 1,
           Len(bridge_transfers))

\* The confirmations the bridge page shows for a transfer:
\* min(confirmations + randint(1, 3), required_confirmations).
DisplayedConfirmations(transfer, roll) ==
    IF transfer.confirmations + roll < transfer.required_confirmations
    THEN transfer.confirmations + roll
    ELSE transfer.required_confirmations

\* The status the bridge page shows for a transfer.
DisplayedStatus(transfer, roll) ==
    IF DisplayedConfirmations(transfer, roll) >= transfer.required_confirmations
    THEN "Completed"
    ELSE "Processing"

\* The bridge page writing what it shows back into the listed transfers.
RenderBridgeStoring ==
    /\ pc = "idle"
    /\ Len(bridge_transfers) > 0
    /\ \E roll \in Rolls :
          bridge_transfers' =
             [i \in 1..Len(bridge_transfers) |->
                [bridge_transfers[i] EXCEPT
                   !.confirmations =
                       DisplayedConfirmations(bridge_transfers[i], roll),
                   !.status = DisplayedStatus(bridge_transfers[i], roll)]]
    /\ UNCHANGED <<blocks, transactions, smart_contracts, files,
                   current_chain, wallet, mining, now, uuid, pc, frame, runs>>

\* A script run that renders the bridge page with its list of active
\* transfers: the shown values are computed and drawn, nothing is stored.
RenderBridge ==
    /\ pc = "idle"
    /\ Len(bridge_transfers) > 0
    /\ UNCHANGED vars

---------------------------------------------------------------------------
(* The session *)

\* The keys init_session_state looks for.
SessionKeys ==
    {"blocks", "transactions", "smart_contracts", "files", "current_chain",
     "wallet", "mining", "bridge_transfers"}

\* st.session_state as the mapping init_session_state finds on a rerun.
SessionState ==
    [blocks |-> blocks, transactions |-> transactions,
     smart_contracts |-> smart_contracts, files |-> files,
     current_chain |-> current_chain, wallet |-> wallet, mining |-> mining,
     bridge_transfers |-> bridge_transfers]

\* The value init_session_state stores under a key it does not find.
FreshValue(key) ==
    CASE key = "blocks" ->
           [chain \in Networks |->
              generate_genesis_block(chain,
                  CASE chain = "besu" -> now
                    [] chain = "fabric" -> now + 1
                    [] chain = "corda" -> now + 2)]
      [] key = "transactions" -> <<>>
      [] key = "smart_contracts" -> <<>>
      [] key = "files" -> <<>>
      [] key = "current_chain" -> "besu"
      [] key = "wallet" -> generate_wallet(uuid)
      [] key = "mining" -> FALSE
      [] key = "bridge_transfers" -> <<>>

\* init_session_state creating the chains whether or not they are there.
init_session_state_new_chains(state) ==
    [key \in SessionKeys |->
       IF key \in DOMAIN state /\ key # "blocks"
       THEN state[key]
       ELSE FreshValue(key)]

\* init_session_state: each key is set only if it is not in the session.
init_session_state(state) ==
    [key \in SessionKeys |->
       IF key \in DOMAIN state THEN state[key] ELSE FreshValue(key)]

\* A rerun of the script: the application is constructed again on the
\* session the earlier runs left.
Rerun ==
    /\ pc = "idle"
    /\ blocks' = init_session_state(SessionState).blocks
    /\ transactions' = init_session_state(SessionState).transactions
    /\ smart_contracts' = init_session_state(SessionState).smart_contracts
    /\ files' = init_session_state(SessionState).files
    /\ current_chain' = init_session_state(SessionState).current_chain
    /\ wallet' = init_session_state(SessionState).wallet
    /\ mining' = init_session_state(SessionState).mining
    /\ bridge_transfers' = init_session_state(SessionState).bridge_transfers
    /\ UNCHANGED <<now, uuid, pc, frame, runs>>

\* init_session_state creating corda's chain without its genesis block.
InitWithoutCordaGenesis ==
    /\ blocks = [chain \in Networks |->
                   CASE chain = "besu" -> generate_genesis_block(chain, 0)
                     [] chain = "fabric" -> generate_genesis_block(chain, 1)
                     [] chain = "corda" -> <<>>]
    /\ transactions = <<>>
    /\ smart_contracts = <<>>
    /\ files = <<>>
    /\ current_chain = "besu"
    /\ wallet = generate_wallet(0)
    /\ mining = FALSE
    /\ bridge_transfers = <<>>
    /\ now = 3
    /\ uuid = 1
    /\ pc = "idle"
    /\ frame = NoFrame
    /\ runs = <<>>

\* init_session_state on the first run of a session: the three genesis
\* blocks, then the empty registries, then the wallet.
Init ==
    /\ blocks = [chain \in Networks |->
                   generate_genesis_block(chain,
                       CASE chain = "besu" -> 0
                         [] chain = "fabric" -> 1
                         [] chain = "corda" -> 2)]
    /\ transactions = <<>>
    /\ smart_contracts = <<>>
    /\ files = <<>>
    /\ current_chain = "besu"
    /\ wallet = generate_wallet(0)
    /\ mining = FALSE
    /\ bridge_transfers = <<>>
    /\ now = 3
    /\ uuid = 1
    /\ pc = "idle"
    /\ frame = NoFrame
    /\ runs = <<>>

Next ==
    \/ \E name \in ContractNames, code \in ContractCodes, chain \in Networks :
          DeploySmartContract(name, code, chain)
    \/ \E file \in UploadedFiles, chain \in Networks : UploadFile(file, chain)
    \/ \E asset_id \in AssetIds, from_chain \in Networks, to_chain \in Networks,
          amount \in BridgeAmounts :
          BridgeAsset(asset_id, from_chain, to_chain, amount)
    \/ \E amount \in TransferAmounts : ExplorerMine(amount)
    \/ \E chain_id \in Networks : SelectChain(chain_id)
    \/ RenderBridge
    \/ Rerun
    \/ MineLoop
    \/ MineBreak
    \/ AppendBlock
    \/ Cancel

Spec == Init /\ [][Next]_vars

---------------------------------------------------------------------------
(* Two runs of mine_block's loop, side by side, on inputs drawn from small  *)
(* sets: the tip's hash, the index, the timestamp and the transactions of  *)
(* each run are chosen independently, so the runs may or may not agree.    *)

SampleTxs ==
    {<<Transaction(TxId(1), "Transfer", <<"0", "x", "a">>, <<"0", "x", "b">>,
                   [amount |-> amount, token |-> "KZT"], 3, "besu", 21000, 1)>> :
       amount \in TransferAmounts}

SampleTips == {calculate_hash(GenesisData(chain)) : chain \in {"besu", "fabric"}}

RunInputs ==
    {[pc |-> "mining",
      f |-> [chain |-> chain, index |-> index, timestamp |-> timestamp,
             transactions |-> txs, previous_hash |-> tip, nonce |-> 0,
             hash_value |-> <<>>]] :
       chain \in {"besu", "fabric"}, index \in 1..2, timestamp \in 4..5,
       txs \in SampleTxs, tip \in SampleTips}

InitMine ==
    /\ blocks = [chain \in Networks |->
                   generate_genesis_block(chain,
                       CASE chain = "besu" -> 0
                         [] chain = "fabric" -> 1
                         [] chain = "corda" -> 2)]
    /\ transactions = <<>>
    /\ smart_contracts = <<>>
    /\ files = <<>>
    /\ current_chain = "besu"
    /\ wallet = generate_wallet(0)
    /\ mining = FALSE
    /\ bridge_transfers = <<>>
    /\ now = 3
    /\ uuid = 1
    /\ pc = "idle"
    /\ frame = NoFrame
    /\ runs \in [1..2 -> RunInputs]

RunLoop(k) ==
    /\ runs[k].pc = "mining"
    /\ ~DifficultyMet(IterationHash(runs[k].f))
    /\ runs' = [runs EXCEPT ![k].f = NextNonce(@)]
    /\ UNCHANGED <<session, now, uuid, pc, frame>>

RunBreak(k) ==
    /\ runs[k].pc = "mining"
    /\ DifficultyMet(IterationHash(runs[k].f))
    /\ runs' = [runs EXCEPT ![k].f = Break(@), ![k].pc = "found"]
    /\ UNCHANGED <<session, now, uuid, pc, frame>>

NextMine ==
    \/ \E k \in 1..2 : RunLoop(k)
    \/ \E k \in 1..2 : RunBreak(k)

SpecMine == InitMine /\ [][NextMine]_vars

---------------------------------------------------------------------------
(* mine_block's body on locals drawn from small sets: the index and the    *)
(* previous hash of the candidate are chosen independently of the chain it *)
(* is appended to, so the candidate may or may not fit the chain's tip.    *)

AllTips == {calculate_hash(GenesisData(chain)) : chain \in Networks}

CandidateInputs ==
    {[chain |-> chain, index |-> index, timestamp |-> timestamp,
      transactions |-> txs, previous_hash |-> tip, nonce |-> 0,
      hash_value |-> <<>>] :
       chain \in Networks, index \in 0..2, timestamp \in 3..4,
       txs \in SampleTxs, tip \in AllTips}

InitAppend ==
    /\ blocks = [chain \in Networks |->
                   generate_genesis_block(chain,
                       CASE chain = "besu" -> 0
                         [] chain = "fabric" -> 1
                         [] chain = "corda" -> 2)]
    /\ transactions = <<>>
    /\ smart_contracts = <<>>
    /\ files = <<>>
    /\ current_chain = "besu"
    /\ wallet = generate_wallet(0)
    /\ mining = FALSE
    /\ bridge_transfers = <<>>
    /\ now = 5
    /\ uuid = 1
    /\ pc = "mining"
    /\ frame \in CandidateInputs
    /\ runs = <<>>

NextAppend ==
    \/ MineLoop
    \/ MineBreak
    \/ AppendBlock

SpecAppend == InitAppend /\ [][NextAppend]_vars

\* The script thread keeps running while it is inside mine_block: an
\* iteration, the break and the append that can be taken are taken.
SpecAppendFair ==
    /\ SpecAppend
    /\ WF_vars(MineLoop)
    /\ WF_vars(MineBreak)
    /\ WF_vars(AppendBlock)

---------------------------------------------------------------------------
(* Properties *)

\* The digest of a block's recorded (index, timestamp, transactions,
\* previous_hash, nonce).
Recomputed(b) ==
    calculate_hash(BlockData(b.index, b.timestamp, b.transactions,
                             b.previous_hash, b.nonce))

Zeros4 == <<"0", "0", "0", "0">>

\* Some block of the transaction's network holds a snapshot with this id.
Mined(id, chain) ==
    \E j \in 1..Len(blocks[chain]) :
       \E k \in 1..Len(blocks[chain][j].transactions) :
          blocks[chain][j].transactions[k].id = id

\* C1: in every reachable state, every block after the genesis block of
\* every network's chain names the hash of the block before it as its
\* previous_hash and has its position as its index.
C1_ChainLinked ==
    \A chain \in Networks :
       \A i \in 2..Len(blocks[chain]) :
          /\ blocks[chain][i].previous_hash = blocks[chain][i - 1].hash
          /\ blocks[chain][i].index = i - 1

\* A chain holds two mined blocks, the second mined on top of the first.
C1_Witness ==
    \E chain \in Networks :
       /\ Len(blocks[chain]) = 3
       /\ blocks[chain][3].previous_hash = blocks[chain][2].hash

\* C2: a cancelled or failed mine attempt leaves nothing behind: whenever no
\* operation is running, every recorded transaction, every contract's
\* deployment transaction and every file's anchoring transaction is in a
\* block of its network's chain.
C2_RecordAndBlockTogether ==
    pc = "idle" =>
       /\ \A i \in 1..Len(transactions) :
             Mined(transactions[i].id, transactions[i].blockchain)
       /\ \A i \in 1..Len(smart_contracts) :
             \E j \in 1..Len(transactions) :
                /\ transactions[j].to_address = smart_contracts[i].address
                /\ transactions[j].type = "Contract Deployment"
                /\ Mined(transactions[j].id, smart_contracts[i].blockchain)
       /\ \A i \in 1..Len(files) : Mined(files[i].tx_hash, files[i].blockchain)
       /\ Len(bridge_transfers) =
             Cardinality({i \in 1..Len(transactions) :
                            /\ transactions[i].type = "Bridge Lock"
                            /\ Mined(transactions[i].id,
                                     transactions[i].blockchain)})

\* A step that is a call of deploy_smart_contract for this network.
DeployCall(chain) ==
    /\ pc = "idle"
    /\ pc' = "mining"
    /\ frame'.chain = chain
    /\ frame'.transactions[1].type = "Contract Deployment"

\* C3: a deployment on a network that is not EVM-compatible is refused and
\* leaves that network's chain, the ledger and the contract registry as
\* they were.
C3_NonEvmDeployRefused ==
    [][\A chain \in Networks :
          (NetworkType[chain] # "EVM-Compatible" /\ DeployCall(chain))
             => UNCHANGED <<blocks, transactions, smart_contracts>>]_vars

\* A step that is a call of bridge_asset with the same source and
\* destination.
SameNetworkBridgeCall ==
    /\ pc = "idle"
    /\ pc' = "mining"
    /\ frame'.transactions[1].type = "Bridge Lock"
    /\ frame'.transactions[1].data.destination = frame'.chain

\* C4: a bridge transfer from a network to itself is refused and records
\* nothing, so every stored bridge transfer has different end points.
C4_SameNetworkBridgeRefused ==
    /\ [](\A i \in 1..Len(bridge_transfers) :
             bridge_transfers[i].from_chain # bridge_transfers[i].to_chain)
    /\ [][SameNetworkBridgeCall
            => UNCHANGED <<blocks, transactions, bridge_transfers>>]_vars

\* C5: every stored bridge transfer has 0 <= confirmations <=
\* required_confirmations = 10, and no step lowers a transfer's
\* confirmations (or drops the transfer).
C5_ConfirmationsBounded ==
    /\ [](\A i \in 1..Len(bridge_transfers) :
             /\ bridge_transfers[i].required_confirmations = 10
             /\ bridge_transfers[i].confirmations >= 0
             /\ bridge_transfers[i].confirmations
                  <= bridge_transfers[i].required_confirmations)
    /\ [][\A i \in 1..Len(bridge_transfers) :
             /\ i <= Len(bridge_transfers')
             /\ bridge_transfers'[i].id = bridge_transfers[i].id
             /\ bridge_transfers'[i].confirmations
                  >= bridge_transfers[i].confirmations]_vars

\* A bridge transfer is stored and a later operation has run to its end.
C5_Witness ==
    /\ pc = "idle"
    /\ Len(bridge_transfers) = 1
    /\ Len(transactions) = 2
    /\ transactions[1].type = "Bridge Lock"
    /\ Mined(transactions[2].id, transactions[2].blockchain)

\* C6: a stored bridge transfer is 'Completed' exactly when its
\* confirmations equal required_confirmations; its status changes only from
\* 'Processing' to 'Completed', only in a step that brings confirmations to
\* the requirement, and a 'Completed' transfer stays 'Completed'.
C6_CompletedIffConfirmed ==
    /\ [](\A i \in 1..Len(bridge_transfers) :
             /\ bridge_transfers[i].status \in {"Processing", "Completed"}
             /\ (bridge_transfers[i].status = "Completed")
                  <=> (bridge_transfers[i].confirmations
                         = bridge_transfers[i].required_confirmations))
    /\ [][\A i \in 1..Len(bridge_transfers) :
             /\ i <= Len(bridge_transfers')
             /\ bridge_transfers[i].status = "Completed"
                  => bridge_transfers'[i].status = "Completed"
             /\ bridge_transfers'[i].status # bridge_transfers[i].status
                  => /\ bridge_transfers[i].status = "Processing"
                     /\ bridge_transfers[i].confirmations
                          < bridge_transfers[i].required_confirmations
                     /\ bridge_transfers'[i].confirmations
                          = bridge_transfers'[i].required_confirmations]_vars

\* Two bridge transfers are stored, both short of the requirement and both
\* 'Processing', after their lock transactions were mined.
C6_Witness ==
    /\ pc = "idle"
    /\ Len(bridge_transfers) = 2
    /\ \A i \in 1..2 :
          /\ bridge_transfers[i].status = "Processing"
          /\ bridge_transfers[i].confirmations
               < bridge_transfers[i].required_confirmations
    /\ \A i \in 1..2 : Mined(transactions[i].id, transactions[i].blockchain)

\* C7: every block after the genesis block records as its hash the digest
\* of its own recorded fields, and that hash starts with "0000".
C7_MinedHashValid ==
    \A chain \in Networks :
       \A i \in 2..Len(blocks[chain]) :
          /\ blocks[chain][i].hash = Recomputed(blocks[chain][i])
          /\ Take(blocks[chain][i].hash, 4) = Zeros4

\* A block was appended whose nonce search took more than one iteration.
C7_Witness ==
    \E chain \in Networks :
       /\ Len(blocks[chain]) >= 2
       /\ blocks[chain][2].nonce > 0
       /\ Take(blocks[chain][2].hash, 4) = Zeros4

\* C8 as stated: every block, the genesis block included, has a recomputed
\* hash that starts with "0000".
C8_EveryBlockMeetsDifficulty ==
    \A chain \in Networks :
       \A i \in 1..Len(blocks[chain]) :
          Take(Recomputed(blocks[chain][i]), 4) = Zeros4

\* C8 amended: every block other than the genesis block has a recomputed
\* hash that starts with "0000".
C8_MinedBlocksMeetDifficulty ==
    \A chain \in Networks :
       \A i \in 1..Len(blocks[chain]) :
          blocks[chain][i].index # 0
             => Take(Recomputed(blocks[chain][i]), 4) = Zeros4

\* Two networks hold a mined block each, and the genesis hash of one of
\* them does not start with "0000".
C8_Witness ==
    \E c1, c2 \in Networks :
       /\ c1 # c2
       /\ Len(blocks[c1]) = 2
       /\ Len(blocks[c2]) = 2
       /\ Take(blocks[c1][1].hash, 4) # Zeros4

\* C9: the genesis block of every network has index 0, previous_hash "0",
\* nonce 0, no transactions and the digest of "Genesis Block " + network as
\* its hash, and no step changes it or moves it from position 0.
C9_GenesisFixed ==
    /\ [](\A chain \in Networks :
             /\ Len(blocks[chain]) >= 1
             /\ blocks[chain][1].index = 0
             /\ blocks[chain][1].previous_hash = <<"0">>
             /\ blocks[chain][1].nonce = 0
             /\ blocks[chain][1].transactions = <<>>
             /\ blocks[chain][1].hash = calculate_hash(GenesisData(chain)))
    /\ [][\A chain \in Networks : blocks'[chain][1] = blocks[chain][1]]_vars

\* Blocks were mined on top of the genesis block of a network other than
\* the one selected at start.
C9_Witness ==
    /\ pc = "idle"
    /\ Len(blocks["corda"]) = 3
    /\ blocks["corda"][1].index = 0
    /\ blocks["corda"][2].index = 1

DigestAt(b, nonce) ==
    calculate_hash(BlockData(b.index, b.timestamp, b.transactions,
                             b.previous_hash, nonce))

\* C11: the nonce of every mined block is the least non-negative integer
\* at which the digest of the block's (index, timestamp, transactions,
\* previous_hash, nonce) starts with "0000".
C11_NonceIsLeast ==
    \A chain \in Networks :
       \A i \in 2..Len(blocks[chain]) :
          /\ blocks[chain][i].nonce >= 0
          /\ Take(DigestAt(blocks[chain][i], blocks[chain][i].nonce), 4) = Zeros4
          /\ \A n \in 0..(blocks[chain][i].nonce - 1) :
                Take(DigestAt(blocks[chain][i], n), 4) # Zeros4

\* Mined blocks at both ends of the search: one found at nonce 0 and one
\* after at least two misses.
C11_Witness ==
    /\ \E chain \in Networks :
          \E i \in 2..Len(blocks[chain]) : blocks[chain][i].nonce = 0
    /\ \E chain \in Networks :
          \E i \in 2..Len(blocks[chain]) : blocks[chain][i].nonce >= 2

\* The bridge transfer stored last.
LastTransfer == bridge_transfers[Len(bridge_transfers)]

\* A bridge_asset call between two different networks is running.
BridgeRunning ==
    /\ pc \in {"mining", "found"}
    /\ frame.transactions[1].type = "Bridge Lock"
    /\ LastTransfer.from_chain # LastTransfer.to_chain

\* The step that enters bridge_asset with two different networks.
BridgeCall ==
    /\ pc = "idle"
    /\ pc' = "mining"
    /\ frame'.transactions[1].type = "Bridge Lock"
    /\ Len(bridge_transfers') > 0
    /\ LastTransfer'.from_chain # LastTransfer'.to_chain

\* C12: a bridge_asset call from network A to a different network B adds
\* exactly one bridge transfer (A to B, confirmations 0,
\* required_confirmations 10, 'Processing') and exactly one ledger
\* transaction (type 'Bridge Lock', tagged A, gas_used 75000) when it starts,
\* changes nothing more while it mines, and on its return extends A's chain,
\* and only A's chain, by exactly one block holding the snapshot of that
\* transaction.
C12_BridgeEffects ==
    /\ [][BridgeCall =>
            /\ bridge_transfers' = Append(bridge_transfers, LastTransfer')
            /\ LastTransfer'.confirmations = 0
            /\ LastTransfer'.required_confirmations = 10
            /\ LastTransfer'.status = "Processing"
            /\ transactions' = Append(transactions, frame'.transactions[1])
            /\ Len(frame'.transactions) = 1
            /\ frame'.chain = LastTransfer'.from_chain
            /\ frame'.transactions[1].blockchain = LastTransfer'.from_chain
            /\ frame'.transactions[1].data.destination = LastTransfer'.to_chain
            /\ frame'.transactions[1].gas_used = 75000
            /\ UNCHANGED <<blocks, smart_contracts, files>>]_vars
    /\ [][(BridgeRunning /\ pc' # "idle") =>
            /\ UNCHANGED session
            /\ frame'.chain = frame.chain
            /\ frame'.transactions = frame.transactions]_vars
    /\ [][(BridgeRunning /\ pc' = "idle" /\ blocks' # blocks) =>
            /\ Len(blocks'[LastTransfer.from_chain])
                 = Len(blocks[LastTransfer.from_chain]) + 1
            /\ SubSeq(blocks'[LastTransfer.from_chain], 1,
                      Len(blocks[LastTransfer.from_chain]))
                 = blocks[LastTransfer.from_chain]
            /\ blocks'[LastTransfer.from_chain]
                      [Len(blocks'[LastTransfer.from_chain])].transactions
                 = <<transactions[Len(transactions)]>>
            /\ transactions[Len(transactions)].type = "Bridge Lock"
            /\ transactions[Len(transactions)].blockchain
                 = LastTransfer.from_chain
            /\ \A chain \in Networks \ {LastTransfer.from_chain} :
                  blocks'[chain] = blocks[chain]
            /\ UNCHANGED <<transactions, bridge_transfers, smart_contracts,
                           files>>]_vars

\* A bridge transfer from besu to fabric has run to its end: one transfer,
\* one lock transaction, one more block on besu and none on fabric.
C12_Witness ==
    /\ pc = "idle"
    /\ Len(bridge_transfers) = 1
    /\ bridge_transfers[1].from_chain = "besu"
    /\ bridge_transfers[1].to_chain = "fabric"
    /\ Len(transactions) = 1
    /\ transactions[1].type = "Bridge Lock"
    /\ Len(blocks["besu"]) = 2
    /\ blocks["besu"][2].transactions = <<transactions[1]>>
    /\ Len(blocks["fabric"]) = 1

\* The contract stored last.
LastContract == smart_contracts[Len(smart_contracts)]

\* A deploy_smart_contract call for an EVM-compatible network is running.
EvmDeployRunning ==
    /\ pc \in {"mining", "found"}
    /\ frame.transactions[1].type = "Contract Deployment"
    /\ NetworkType[frame.chain] = "EVM-Compatible"

\* C13: a deploy_smart_contract call on the EVM-compatible network adds
\* exactly one SmartContract tagged with that network and exactly one ledger
\* transaction (type 'Contract Deployment', gas_used 2100000, to_address the
\* new contract's address) when it starts, changes nothing more while it
\* mines, and on its return makes that network's chain exactly one block
\* longer, leaving the other chains alone.
C13_DeployEffects ==
    /\ [][(\E chain \in Networks :
              NetworkType[chain] = "EVM-Compatible" /\ DeployCall(chain)) =>
            /\ Len(smart_contracts') = Len(smart_contracts) + 1
            /\ smart_contracts' = Append(smart_contracts, LastContract')
            /\ LastContract'.blockchain = frame'.chain
            /\ transactions' = Append(transactions, frame'.transactions[1])
            /\ Len(frame'.transactions) = 1
            /\ frame'.transactions[1].blockchain = frame'.chain
            /\ frame'.transactions[1].gas_used = 2100000
            /\ frame'.transactions[1].to_address = LastContract'.address
            /\ UNCHANGED <<blocks, files, bridge_transfers>>]_vars
    /\ [][(EvmDeployRunning /\ pc' # "idle") =>
            /\ UNCHANGED session
            /\ frame'.chain = frame.chain
            /\ frame'.transactions = frame.transactions]_vars
    /\ [][(EvmDeployRunning /\ pc' = "idle" /\ blocks' # blocks) =>
            /\ Len(blocks'[frame.chain]) = Len(blocks[frame.chain]) + 1
            /\ SubSeq(blocks'[frame.chain], 1, Len(blocks[frame.chain]))
                 = blocks[frame.chain]
            /\ \A chain \in Networks \ {frame.chain} :
                  blocks'[chain] = blocks[chain]
            /\ UNCHANGED <<transactions, bridge_transfers, smart_contracts,
                           files>>]_vars

\* A deployment on besu has run to its end: one contract, one deployment
\* transaction addressed to it, one more block on besu.
C13_Witness ==
    /\ pc = "idle"
    /\ Len(smart_contracts) = 1
    /\ smart_contracts[1].blockchain = "besu"
    /\ Len(transactions) = 1
    /\ transactions[1].type = "Contract Deployment"
    /\ transactions[1].to_address = smart_contracts[1].address
    /\ Len(blocks["besu"]) = 2

\* C14: every ledger transaction whose creating operation has run to its
\* end (its snapshot is mined) has a block_number that is the index of an
\* existing block of its own network's chain, and that block holds the
\* snapshot of the transaction.
C14_BlockNumberNamesItsBlock ==
    \A i \in 1..Len(transactions) :
       Mined(transactions[i].id, transactions[i].blockchain) =>
          /\ transactions[i].block_number >= 0
          /\ transactions[i].block_number + 1
               <= Len(blocks[transactions[i].blockchain])
          /\ blocks[transactions[i].blockchain]
                   [transactions[i].block_number + 1].index
               = transactions[i].block_number
          /\ \E k \in 1..Len(blocks[transactions[i].blockchain]
                                   [transactions[i].block_number + 1].transactions) :
                blocks[transactions[i].blockchain]
                      [transactions[i].block_number + 1].transactions[k]
                  = transactions[i]

\* Two operations on one network have run to their ends, one of them the
\* explorer's: their transactions carry the block numbers 1 and 2.
C14_Witness ==
    /\ pc = "idle"
    /\ Len(transactions) = 2
    /\ transactions[1].blockchain = transactions[2].blockchain
    /\ transactions[2].type = "Transfer"
    /\ transactions[1].block_number = 1
    /\ transactions[2].block_number = 2
    /\ \A i \in 1..2 : Mined(transactions[i].id, transactions[i].blockchain)

FileNamed(name) == CHOOSE file \in UploadedFiles : file.name = name

\* The digest and the length of the full content of each uploaded file.
FullDigest ==
    [name \in {file.name : file \in UploadedFiles} |->
       calculate_hash(FileNamed(name).bytes)]

FullSize ==
    [name \in {file.name : file \in UploadedFiles} |->
       Len(FileNamed(name).bytes)]

\* The digest of the page's preview of each uploaded file.
PreviewDigest ==
    [name \in {file.name : file \in UploadedFiles} |->
       calculate_hash(FilePreview(FileNamed(name)))]

\* C17: the file records have pairwise distinct file_ids; every record's
\* hash is the digest of the full content of its file and its size is the
\* length of that content, so two records of the same content carry the
\* same hash, also for a file longer than the page's preview.
C17_FullContentHashed ==
    /\ \A i, j \in 1..Len(files) :
          /\ files[i].file_id = files[j].file_id => i = j
          /\ files[i].name = files[j].name => files[i].hash = files[j].hash
    /\ \A i \in 1..Len(files) :
          /\ files[i].hash = FullDigest[files[i].name]
          /\ files[i].size = FullSize[files[i].name]

\* The file that is longer than the preview has been anchored twice: two
\* ids, one hash, and that hash is not the digest of the preview.
C17_Witness ==
    /\ Len(files) = 2
    /\ files[1].name = files[2].name
    /\ files[1].size > PreviewSize
    /\ files[1].file_id # files[2].file_id
    /\ files[1].hash = files[2].hash
    /\ files[1].hash # PreviewDigest[files[1].name]

\* The ledger positions of a network's transactions.
Positions(chain) ==
    {i \in 1..Len(transactions) : transactions[i].blockchain = chain}

\* The ledger position of the k-th transaction of a network.
KthPosition(chain, k) ==
    CHOOSE i \in Positions(chain) :
       Cardinality({j \in Positions(chain) : j <= i}) = k

\* C18: the ledger only grows at its end (every step keeps the ledger it
\* starts from as a prefix, with every recorded transaction unaltered), and
\* the per-network query returns exactly the transactions tagged with that
\* network, in the order of their insertion.
C18_LedgerAppendOnly ==
    /\ [][/\ Len(transactions') >= Len(transactions)
          /\ SubSeq(transactions', 1, Len(transactions)) = transactions]_vars
    /\ [](\A chain \in Networks :
             /\ Len(chain_txs(chain)) = Cardinality(Positions(chain))
             /\ \A k \in 1..Len(chain_txs(chain)) :
                   chain_txs(chain)[k] = transactions[KthPosition(chain, k)])

\* The ledger holds two transactions of besu and the query answers with
\* both for besu and with none for fabric.
C18_Witness ==
    /\ Len(transactions) = 2
    /\ transactions[1].blockchain = "besu"
    /\ transactions[2].blockchain = "besu"
    /\ transactions[1] # transactions[2]
    /\ chain_txs("besu") = transactions
    /\ chain_txs("fabric") = <<>>

\* C19: every step keeps each network's chain as a prefix of the chain it
\* leaves (no block is removed, replaced or modified), and the chains
\* change only in mine_block's append: one block, built from the finished
\* search, at the end of the chain mine_block was called for.
C19_ChainsAppendOnly ==
    /\ [][\A chain \in Networks :
             /\ Len(blocks'[chain]) >= Len(blocks[chain])
             /\ SubSeq(blocks'[chain], 1, Len(blocks[chain]))
                  = blocks[chain]]_vars
    /\ [][blocks' # blocks =>
             /\ pc = "found"
             /\ pc' = "idle"
             /\ Len(blocks'[frame.chain]) = Len(blocks[frame.chain]) + 1
             /\ blocks'[frame.chain][Len(blocks'[frame.chain])].hash
                  = frame.hash_value
             /\ blocks'[frame.chain][Len(blocks'[frame.chain])].transactions
                  = frame.transactions
             /\ \A chain \in Networks \ {frame.chain} :
                   blocks'[chain] = blocks[chain]]_vars

\* Blocks have been mined on two networks and the third chain still has
\* its genesis block only.
C19_Witness ==
    /\ pc = "idle"
    /\ Len(blocks["besu"]) = 2
    /\ Len(blocks["fabric"]) = 2
    /\ Len(blocks["corda"]) = 1

\* C20: the miner recorded in every mined block is the session wallet's
\* full address.
C20_MinerIsFullAddress ==
    \A chain \in Networks :
       \A i \in 2..Len(blocks[chain]) :
          blocks[chain][i].miner = wallet.address

\* The network the operation entered in this step targets: the selected
\* network for the explorer's mine, the network of the new contract or file
\* record for a deployment or an upload, the source of the new bridge
\* transfer for a bridge.
CallTarget ==
    CASE frame'.transactions[1].type = "Transfer" -> current_chain
      [] frame'.transactions[1].type = "Contract Deployment"
           -> smart_contracts'[Len(smart_contracts')].blockchain
      [] frame'.transactions[1].type = "File Upload"
           -> files'[Len(files')].blockchain
      [] frame'.transactions[1].type = "Bridge Lock"
           -> bridge_transfers'[Len(bridge_transfers')].from_chain

\* C21: an operation that targets network X records exactly one
\* transaction, tagged X, and mines on X; from its start to its end the
\* chain of every other network stays as it was and no further transaction
\* is recorded.  A bridge from A to a different B therefore leaves B's
\* chain alone and records nothing tagged B, and the ledger holds no
\* transaction of a type other than the four the operations create.
C21_OtherNetworksUntouched ==
    /\ [][(pc = "idle" /\ pc' = "mining") =>
            /\ frame'.chain = CallTarget
            /\ Len(transactions') = Len(transactions) + 1
            /\ SubSeq(transactions', 1, Len(transactions)) = transactions
            /\ transactions'[Len(transactions')].blockchain = CallTarget
            /\ UNCHANGED blocks]_vars
    /\ [][(pc # "idle" /\ pc' # "idle") =>
            /\ frame'.chain = frame.chain
            /\ UNCHANGED <<blocks, transactions>>]_vars
    /\ [][(pc # "idle" /\ pc' = "idle") =>
            /\ \A chain \in Networks \ {frame.chain} :
                  blocks'[chain] = blocks[chain]
            /\ UNCHANGED transactions]_vars
    /\ [](\A i \in 1..Len(transactions) :
             transactions[i].type \in {"Transfer", "Contract Deployment",
                                       "File Upload", "Bridge Lock"})

\* A file was anchored on corda while besu was selected, and a bridge from
\* fabric to besu followed: besu's chain still holds its genesis block only
\* and no transaction is tagged besu.
C21_Witness ==
    /\ pc = "idle"
    /\ current_chain = "besu"
    /\ Len(transactions) = 2
    /\ transactions[1].type = "File Upload"
    /\ transactions[1].blockchain = "corda"
    /\ transactions[2].type = "Bridge Lock"
    /\ transactions[2].blockchain = "fabric"
    /\ transactions[2].data.destination = "besu"
    /\ Len(blocks["corda"]) = 2
    /\ Len(blocks["fabric"]) = 2
    /\ Len(blocks["besu"]) = 1

\* C22: every network's chain holds at least one block and starts with its
\* genesis block (index 0, previous hash "0", miner "System"), so the tip
\* mine_block reads always exists.
C22_ChainsNeverEmpty ==
    \A chain \in Networks :
       /\ Len(blocks[chain]) >= 1
       /\ blocks[chain][1].index = 0
       /\ blocks[chain][1].previous_hash = <<"0">>
       /\ blocks[chain][1].miner = <<"S", "y", "s", "t", "e", "m">>
       /\ blocks[chain][1].transactions = <<>>

\* mine_block has read the tip of a chain that holds its genesis block
\* only and searches on top of it.
C22_Witness ==
    /\ pc = "mining"
    /\ Len(blocks[frame.chain]) = 1
    /\ frame.index = 1
    /\ frame.previous_hash = blocks[frame.chain][1].hash
    /\ frame.nonce > 0

GasOfType ==
    [type \in {"Contract Deployment", "File Upload", "Bridge Lock", "Transfer"} |->
       CASE type = "Contract Deployment" -> 2100000
         [] type = "File Upload" -> 50000
         [] type = "Bridge Lock" -> 75000
         [] type = "Transfer" -> 21000]

\* C24: every transaction of the ledger, and every snapshot held by a
\* block, is of one of the four types and carries the gas_used of its type
\* (2100000 for 'Contract Deployment', 50000 for 'File Upload', 75000 for
\* 'Bridge Lock', 21000 for 'Transfer'), on every network.
C24_GasFixedByType ==
    /\ \A i \in 1..Len(transactions) :
          /\ transactions[i].type \in DOMAIN GasOfType
          /\ transactions[i].gas_used = GasOfType[transactions[i].type]
    /\ \A chain \in Networks :
          \A j \in 1..Len(blocks[chain]) :
             \A k \in 1..Len(blocks[chain][j].transactions) :
                blocks[chain][j].transactions[k].gas_used
                  = GasOfType[blocks[chain][j].transactions[k].type]

\* Two transactions of one type are recorded on networks with different
\* gas prices and carry the same gas.
C24_Witness ==
    /\ Len(transactions) = 2
    /\ transactions[1].type = transactions[2].type
    /\ GasPrice[transactions[1].blockchain]
         # GasPrice[transactions[2].blockchain]
    /\ transactions[1].gas_used = transactions[2].gas_used
    /\ Mined(transactions[2].id, transactions[2].blockchain)

\* C25: whenever no operation is running, each network's chain has one
\* block more than the ledger has transactions tagged with that network,
\* and every block after the genesis block holds exactly one snapshot,
\* tagged with the chain's network and numbered with the block's index.
C25_OneBlockPerTransaction ==
    pc = "idle" =>
       \A chain \in Networks :
          /\ Len(blocks[chain]) - 1 = Len(chain_txs(chain))
          /\ \A i \in 2..Len(blocks[chain]) :
                /\ Len(blocks[chain][i].transactions) = 1
                /\ blocks[chain][i].transactions[1].blockchain = chain
                /\ blocks[chain][i].transactions[1].block_number
                     = blocks[chain][i].index

\* C26: a stored bridge transfer is never written after it is created:
\* every step leaves every stored transfer as it is, so each has
\* confirmations 0, required_confirmations 10 and status 'Processing' in
\* every reachable state and none is 'Completed'; what the bridge page
\* shows for a listed transfer is the stored count plus the roll, below the
\* requirement, with 'Processing'.
C26_TransfersNeverWritten ==
    /\ [][\A i \in 1..Len(bridge_transfers) :
             /\ i <= Len(bridge_transfers')
             /\ bridge_transfers'[i] = bridge_transfers[i]]_vars
    /\ [](\A i \in 1..Len(bridge_transfers) :
             /\ bridge_transfers[i].confirmations = 0
             /\ bridge_transfers[i].required_confirmations = 10
             /\ bridge_transfers[i].status = "Processing")
    /\ [](\A i \in 1..Len(ActiveTransfers) :
             \A roll \in Rolls :
                /\ DisplayedConfirmations(ActiveTransfers[i], roll) = roll
                /\ DisplayedStatus(ActiveTransfers[i], roll) = "Processing")

\* The bridge page can be rendered with two transfers listed, the first
\* of which has been on the list through a later operation.
C26_Witness ==
    /\ ENABLED RenderBridge
    /\ Len(ActiveTransfers) = 2
    /\ ActiveTransfers[1].id # ActiveTransfers[2].id
    /\ Mined(transactions[2].id, transactions[2].blockchain)

\* C27: init_session_state applied to the session of any reachable state
\* gives that session back, so a rerun changes nothing; the wallet and the
\* genesis block of every chain are the same before and after every step,
\* and no step makes a chain shorter.
C27_InitIdempotent ==
    /\ [](init_session_state(SessionState) = SessionState)
    /\ [][Rerun => UNCHANGED session]_vars
    /\ [][/\ wallet' = wallet
          /\ \A chain \in Networks :
                /\ blocks'[chain][1] = blocks[chain][1]
                /\ Len(blocks'[chain]) >= Len(blocks[chain])]_vars

\* A rerun can take place on a session that holds a mined block, a ledger
\* entry and a file record.
C27_Witness ==
    /\ ENABLED Rerun
    /\ Len(blocks["fabric"]) = 2
    /\ Len(transactions) = 1
    /\ Len(files) = 1
    /\ init_session_state(SessionState).blocks["fabric"] = blocks["fabric"]

=============================================================================
